---------------------------- MODULE Spec2Model ----------------------------
(***************************************************************************)
(* ISBN barcode maker: EAN-13 / EAN-5 symbology encoder (barcode.rs), the   *)
(* EPS geometry composer (eps.rs) and the generate_barcode command (lib.rs).*)
(*                                                                         *)
(* Representation.                                                         *)
(*  - A Rust `char` is its Unicode scalar value (an integer); a `&str` is  *)
(*    the sequence of its chars.  `str::len()` is the UTF-8 byte length.   *)
(*  - A length in millimetres (f64 in the source) is an integer number of  *)
(*    1/10000 mm.  Every constant of eps.rs and every product the code     *)
(*    forms from them (3.5 * 0.33, 0.9 * 3.175, 0.3 * 3.175, n * 0.33) is   *)
(*    a whole number of such units, and the document prints coordinates    *)
(*    with four decimals ({:.4}), so the unit is the printed resolution.   *)
(*  - The document is its page size in mm (the bounding box is that size   *)
(*    times the constant 2.83464567, rounded up for the integer box), the  *)
(*    settings it records and its drawing primitives in the order they are *)
(*    written.  The fixed header and preamble text is left out.            *)
(***************************************************************************)
EXTENDS Integers, Sequences, FiniteSets

VARIABLES
    fn,     \* the function the caller invokes
    args,   \* its arguments
    pc,     \* "call" before the function has run, "return" after
    ret     \* the value returned (Pending before)

vars == <<fn, args, pc, ret>>

-----------------------------------------------------------------------------
(* Rust values *)

\* Option<T>: None is the empty sequence, Some(x) the one-element sequence
None == <<>>
Some(x) == <<x>>

\* how a call ends: with a value, or with a panic
Returned(v) == [kind |-> "value", value |-> v]
Panicked == [kind |-> "panic"]
Pending == [kind |-> "pending"]

\* The chars of a string literal of the source, as Unicode scalar values.
CharOf(s) ==
    CASE s = "0" -> 48 [] s = "1" -> 49 [] s = "2" -> 50 [] s = "3" -> 51
      [] s = "4" -> 52 [] s = "5" -> 53 [] s = "6" -> 54 [] s = "7" -> 55
      [] s = "8" -> 56 [] s = "9" -> 57 [] s = "G" -> 71 [] s = "L" -> 76

Chars(s) == [i \in 1..Len(s) |-> CharOf(SubSeq(s, i, i))]

\* char::len_utf8
len_utf8(c) == IF c < 128 THEN 1 ELSE IF c < 2048 THEN 2 ELSE IF c < 65536 THEN 3 ELSE 4

RECURSIVE len(_)
\* str::len: the number of bytes, not of chars
len(s) == IF s = <<>> THEN 0 ELSE len_utf8(Head(s)) + len(Tail(s))

\* char::is_ascii_digit
is_ascii_digit(c) == c \in 48..57

\* char::to_digit(10)
to_digit(c) == IF c \in 48..57 THEN Some(c - 48) ELSE None

\* Option::unwrap, where it does not panic
unwrap(x) == x[1]

\* whether c.to_digit(10).unwrap() panics for some char of s
unwrap_panics(s) == \E i \in 1..Len(s) : to_digit(s[i]) = None

all_ascii_digit(s) == \A i \in 1..Len(s) : is_ascii_digit(s[i])

RECURSIVE SumSeq(_)
SumSeq(s) == IF s = <<>> THEN 0 ELSE Head(s) + SumSeq(Tail(s))

RECURSIVE Flatten(_)
Flatten(ss) == IF ss = <<>> THEN <<>> ELSE Head(ss) \o Flatten(Tail(ss))

-----------------------------------------------------------------------------
(* barcode.rs: the encoding tables *)

L_CODES == <<
    Chars("0001101"), Chars("0011001"), Chars("0010011"), Chars("0111101"), Chars("0100011"),
    Chars("0110001"), Chars("0101111"), Chars("0111011"), Chars("0110111"), Chars("0001011") >>

G_CODES == <<
    Chars("0100111"), Chars("0110011"), Chars("0011011"), Chars("0100001"), Chars("0011101"),
    Chars("0111001"), Chars("0000101"), Chars("0010001"), Chars("0001001"), Chars("0010111") >>

R_CODES == <<
    Chars("1110010"), Chars("1100110"), Chars("1101100"), Chars("1000010"), Chars("1011100"),
    Chars("1001110"), Chars("1010000"), Chars("1000100"), Chars("1001000"), Chars("1110100") >>

FIRST_DIGIT_PATTERNS == <<
    Chars("LLLLLL"), Chars("LLGLGG"), Chars("LLGGLG"), Chars("LLGGGL"), Chars("LGLLGG"),
    Chars("LGGLLG"), Chars("LGGGLL"), Chars("LGLGLG"), Chars("LGLGGL"), Chars("LGGLGL") >>

EAN5_PATTERNS == <<
    Chars("GGLLL"), Chars("GLGLL"), Chars("GLLGL"), Chars("GLLLG"), Chars("LGGLL"),
    Chars("LLGGL"), Chars("LLLGG"), Chars("LGLGL"), Chars("LGLLG"), Chars("LLGLG") >>

\* Rust arrays are indexed from 0, TLA+ sequences from 1.
At(arr, i) == arr[i + 1]

-----------------------------------------------------------------------------
(* barcode.rs: validate_isbn13 *)

\* isbn.chars().map(|c| c.to_digit(10).unwrap()).collect()
digits_of(s) == [i \in 1..Len(s) |-> unwrap(to_digit(s[i]))]

\* the weights the other way round: 3 at the even indices
isbn13_weighted_swapped(i, d) == IF i % 2 = 0 THEN d * 3 ELSE d

\* the weight of the digit at (0-based) index i
isbn13_weighted(i, d) == IF i % 2 = 0 THEN d ELSE d * 3

isbn13_sum(digits) ==
    SumSeq([k \in 1..Len(digits) |-> isbn13_weighted(k - 1, digits[k])])

\* the early return of validate_isbn13
isbn13_rejected(isbn) == len(isbn) # 13 \/ ~all_ascii_digit(isbn)

validate_isbn13(isbn) ==
    IF isbn13_rejected(isbn) THEN FALSE
    ELSE LET digits == digits_of(isbn)
             sum == isbn13_sum(digits)
         IN  sum % 10 = 0

validate_isbn13_panics(isbn) == ~isbn13_rejected(isbn) /\ unwrap_panics(isbn)

-----------------------------------------------------------------------------
(* barcode.rs: encode_ean13 *)

\* modules.bytes().map(|b| b - b'0').collect()
to_modules(str) == [i \in 1..Len(str) |-> str[i] - 48]

\* the table the left-side loop reads for pattern byte ch
left_code(ch, digit) == IF ch = 76 THEN At(L_CODES, digit) ELSE At(G_CODES, digit)

\* the pattern looked up by the second digit
ean13_pattern_second(digits) == At(FIRST_DIGIT_PATTERNS, At(digits, 1))

ean13_pattern(digits) == At(FIRST_DIGIT_PATTERNS, At(digits, 0))

ean13_left(pattern, digits) ==
    Flatten([i \in 1..Len(pattern) |-> left_code(pattern[i], At(digits, (i - 1) + 1))])

\* the right side read from index 6 instead of 7
ean13_right_from6(digits) ==
    Flatten([k \in 1..6 |-> At(R_CODES, At(digits, 6 + (k - 1)))])

ean13_right(digits) ==
    Flatten([k \in 1..6 |-> At(R_CODES, At(digits, 7 + (k - 1)))])

\* the early return of encode_ean13
ean13_rejected(isbn) == len(isbn) # 13 \/ ~all_ascii_digit(isbn)

encode_ean13_panics(isbn) == ~ean13_rejected(isbn) /\ unwrap_panics(isbn)

encode_ean13(isbn) ==
    IF ean13_rejected(isbn) THEN None
    ELSE LET digits == digits_of(isbn)
             pattern == ean13_pattern(digits)
             modules == Chars("101") \o ean13_left(pattern, digits)
                        \o Chars("01010") \o ean13_right(digits) \o Chars("101")
         IN  Some(to_modules(modules))

-----------------------------------------------------------------------------
(* barcode.rs: ean5_check, encode_ean5 *)

ean5_check(digits) ==
    LET sum == At(digits, 0) * 3 + At(digits, 1) * 9 + At(digits, 2) * 3
               + At(digits, 3) * 9 + At(digits, 4) * 3
    IN  sum % 10

\* the separator after every digit, the last one too
ean5_step_trailing(i, ch, digit) ==
    left_code(ch, digit) \o (IF i < 5 THEN Chars("01") ELSE <<>>)

\* one iteration of the loop: the digit's code, then the separator unless last
ean5_step(i, ch, digit) ==
    left_code(ch, digit) \o (IF i < 4 THEN Chars("01") ELSE <<>>)

\* the early return of encode_ean5
ean5_rejected(addon) == len(addon) # 5 \/ ~all_ascii_digit(addon)

encode_ean5_panics(addon) == ~ean5_rejected(addon) /\ unwrap_panics(addon)

encode_ean5(addon) ==
    IF ean5_rejected(addon) THEN None
    ELSE LET digits == [k \in 1..5 |-> unwrap(to_digit(addon[k]))]
             check == ean5_check(digits)
             pattern == At(EAN5_PATTERNS, check)
             modules == Chars("1011")
                        \o Flatten([k \in 1..Len(pattern) |->
                                      ean5_step(k - 1, pattern[k], At(digits, k - 1))])
         IN  Some(to_modules(modules))

-----------------------------------------------------------------------------
(* eps.rs: generate_eps.  Lengths are in units of 1/10000 mm. *)

\* whole millimetres plus ten-thousandths
Mm(whole, frac) == whole * 10000 + frac

x_dim == Mm(0, 3300)
font_size == Mm(3, 1750)
text_y == Mm(0, 847)
guard_bottom == Mm(1, 930)
bar_bottom == Mm(2, 7430)
quiet_zone_left == Mm(3, 6300)
quiet_zone_right == Mm(2, 3100)
addon_gap_modules == 7
addon_bar_bottom == guard_bottom
addon_text_baseline_gap == Mm(0, 4147)

bar_top(bar_height_mm) == guard_bottom + bar_height_mm
addon_text_y(bar_height_mm, addon_offset_mm) ==
    bar_top(bar_height_mm) - font_size + addon_offset_mm
addon_bar_top(bar_height_mm, addon_offset_mm) ==
    addon_text_y(bar_height_mm, addon_offset_mm) - addon_text_baseline_gap

ean13_width_mm(ean13_modules) == Len(ean13_modules) * x_dim

\* the add-on counted by its 5 digits, not by its modules
addon_section_width_digits(ean5_modules) ==
    IF ean5_modules # None
    THEN addon_gap_modules * x_dim + 5 * x_dim + Mm(2, 0)
    ELSE 0

addon_section_width(ean5_modules) ==
    IF ean5_modules # None
    THEN LET addon_modules_count == Len(unwrap(ean5_modules))
         IN  addon_gap_modules * x_dim + addon_modules_count * x_dim + Mm(2, 0)
    ELSE 0

total_width_mm(ean13_modules, ean5_modules) ==
    quiet_zone_left + ean13_width_mm(ean13_modules) + quiet_zone_right
    + addon_section_width(ean5_modules)

total_height_mm(bar_height_mm) == bar_top(bar_height_mm) + Mm(0, 5000)

\* the closures draw_bar and draw_text: one drawing primitive of the document
draw_bar(x, w, y_bot, y_top) ==
    [op |-> "bar", x |-> x, y_bot |-> y_bot, y_top |-> y_top, x_end |-> x + w]

\* u32::to_string of a single digit
to_string(digit) == <<48 + digit>>

draw_text(x, y, text) == [op |-> "text", x |-> x, y |-> y, text |-> text]

\* the centre guard taken one module late
is_guard_late(i, module_count) == i < 3 \/ (i >= 46 /\ i <= 50) \/ i >= (module_count - 3)

is_guard(i, module_count) == i < 3 \/ (i >= 45 /\ i <= 49) \/ i >= (module_count - 3)

\* the loop over ean13_modules: x starts at quiet_zone_left and advances by
\* x_dim after every module, so module i is met at quiet_zone_left + i * x_dim
ean13_bars(ean13_modules, bar_height_mm) ==
    LET module_count == Len(ean13_modules)
        bar(i) ==
            IF ean13_modules[i + 1] = 1
            THEN LET y_bot == IF is_guard(i, module_count) THEN guard_bottom ELSE bar_bottom
                 IN  <<draw_bar(quiet_zone_left + i * x_dim, x_dim, y_bot,
                                bar_top(bar_height_mm))>>
            ELSE <<>>
    IN  Flatten([k \in 1..module_count |-> bar(k - 1)])

\* digit_center_x - font_size * 0.3, where
\* digit_center_x = quiet_zone_left + (module_start + 3.5) * x_dim
digit_text_x(module_start) ==
    LET digit_center_x == quiet_zone_left + ((2 * module_start + 7) * x_dim) \div 2
    IN  digit_center_x - (font_size * 3) \div 10

first_digit_text(digits) ==
    draw_text(quiet_zone_left - (font_size * 9) \div 10, text_y, to_string(At(digits, 0)))

left_group_texts(digits) ==
    [k \in 1..6 |->
        LET i == k - 1
            digit == At(digits, i + 1)
            module_start == 3 + i * 7
        IN  draw_text(digit_text_x(module_start), text_y, to_string(digit))]

\* the right group placed without the centre guard's last module
right_group_texts_49(digits) ==
    [k \in 1..6 |->
        LET i == k - 1
            digit == At(digits, i + 7)
            module_start == 49 + i * 7
        IN  draw_text(digit_text_x(module_start), text_y, to_string(digit))]

right_group_texts(digits) ==
    [k \in 1..6 |->
        LET i == k - 1
            digit == At(digits, i + 7)
            module_start == 50 + i * 7
        IN  draw_text(digit_text_x(module_start), text_y, to_string(digit))]

addon_x_start(ean13_modules) ==
    quiet_zone_left + ean13_width_mm(ean13_modules) + addon_gap_modules * x_dim

addon_bars(ean13_modules, addon_modules, bar_height_mm, addon_offset_mm) ==
    LET bar(i) ==
            IF addon_modules[i + 1] = 1
            THEN <<draw_bar(addon_x_start(ean13_modules) + i * x_dim, x_dim, addon_bar_bottom,
                            addon_bar_top(bar_height_mm, addon_offset_mm))>>
            ELSE <<>>
    IN  Flatten([k \in 1..Len(addon_modules) |-> bar(k - 1)])

\* text_x = addon_x_start + (4.0 + i * 9.0 + 3.5) * x_dim - font_size * 0.3
addon_texts(ean13_modules, addon, bar_height_mm, addon_offset_mm) ==
    LET addon_digits == digits_of(addon) IN
    [k \in 1..5 |->
        LET i == k - 1
            text_x == addon_x_start(ean13_modules) + ((2 * (4 + i * 9) + 7) * x_dim) \div 2
                      - (font_size * 3) \div 10
        IN  draw_text(text_x, addon_text_y(bar_height_mm, addon_offset_mm),
                      to_string(At(addon_digits, i)))]

generate_eps(isbn, addon, bar_height_mm, dpi, addon_offset_mm) ==
    IF encode_ean13(isbn) = None THEN None
    ELSE
    LET ean13_modules == unwrap(encode_ean13(isbn))
        ean5_modules == IF addon # <<>> THEN encode_ean5(addon) ELSE None
        digits == digits_of(isbn)
    IN  Some(
        [ total_width_mm  |-> total_width_mm(ean13_modules, ean5_modules),
          total_height_mm |-> total_height_mm(bar_height_mm),
          dpi             |-> dpi,
          value           |-> isbn,
          addon           |-> IF addon # <<>> THEN Some(addon) ELSE None,
          bar_height_mm   |-> bar_height_mm,
          addon_offset_mm |-> addon_offset_mm,
          ops |-> <<first_digit_text(digits)>>
                  \o ean13_bars(ean13_modules, bar_height_mm)
                  \o left_group_texts(digits)
                  \o right_group_texts(digits)
                  \o (IF ean5_modules # None
                      THEN addon_bars(ean13_modules, unwrap(ean5_modules), bar_height_mm,
                                      addon_offset_mm)
                           \o addon_texts(ean13_modules, addon, bar_height_mm, addon_offset_mm)
                      ELSE <<>>) ])

-----------------------------------------------------------------------------
(* lib.rs: generate_barcode *)

MSG_ISBN_FORMAT == "ISBN must be 13 digits"
MSG_ISBN_CHECK == "ISBN check digit is not correct"
MSG_ADDON_FORMAT == "add-on must be 5 digits"
MSG_GENERATED == "barcode generated"
MSG_FAILED == "barcode generation failed"

BarcodeResult(success, message, eps_content) ==
    [success |-> success, message |-> message, eps_content |-> eps_content,
     file_path |-> None]

\* the length test alone
isbn_format_error_length(request) == len(request.isbn) # 13

isbn_format_error(request) ==
    len(request.isbn) # 13 \/ ~all_ascii_digit(request.isbn)

\* both faults needed: wrong length and a non-digit
addon_format_error_both(request) ==
    /\ request.addon # <<>>
    /\ (len(request.addon) # 5 /\ ~all_ascii_digit(request.addon))

addon_format_error(request) ==
    /\ request.addon # <<>>
    /\ (len(request.addon) # 5 \/ ~all_ascii_digit(request.addon))

generate_barcode(request) ==
    IF isbn_format_error(request)
    THEN BarcodeResult(FALSE, MSG_ISBN_FORMAT, None)
    ELSE IF ~validate_isbn13(request.isbn)
    THEN BarcodeResult(FALSE, MSG_ISBN_CHECK, None)
    ELSE IF addon_format_error(request)
    THEN BarcodeResult(FALSE, MSG_ADDON_FORMAT, None)
    ELSE LET content == generate_eps(request.isbn, request.addon, request.bar_height_mm,
                                     request.dpi, request.addon_offset_mm)
         IN  IF content # None
             THEN BarcodeResult(TRUE, MSG_GENERATED, Some(unwrap(content)))
             ELSE BarcodeResult(FALSE, MSG_FAILED, None)

-----------------------------------------------------------------------------
(* The inputs the calls are made with *)

\* the largest step between consecutive digits of a generated digit string
MaxStride == 1

\* the digit chars '0' + ((a + i * b) mod 10), i = 0..n-1
Stride(a, b, n) == [i \in 1..n |-> 48 + ((a + (i - 1) * b) % 10)]

ISBN_VALID == Chars("9780306406157")
ISBN_BAD_CHECK == Chars("9780306406158")
ADDON_12345 == Chars("12345")

\* 13 decimal digits: every leading digit, every digit at every position,
\* every check digit
Digits13 ==
    { <<48 + lead>> \o Stride(a, b, 11) \o <<48 + chk>> :
        lead \in 0..9, a \in 0..9, b \in 0..MaxStride, chk \in 0..9 }
    \cup {ISBN_VALID, ISBN_BAD_CHECK}

\* chars that are no ASCII digit: '/', ':', '-', 'X', U+00E9 (2 bytes),
\* U+0663 ARABIC-INDIC DIGIT THREE (2 bytes), U+FF11 FULLWIDTH DIGIT ONE (3 bytes)
NonDigitChars == {47, 58, 45, 88, 233, 1635, 65297}

\* strings that are not exactly n ASCII digits, made from the digit string w:
\* shorter, longer, one char replaced, and strings of n bytes that hold a
\* multi-byte char
Malformed(w, n) ==
    { SubSeq(w, 1, k) : k \in 0..(n - 1) }
    \cup { w \o <<c>> : c \in 48..57 }
    \cup { [w EXCEPT ![k] = c] : k \in 1..n, c \in NonDigitChars }
    \cup { SubSeq(w, 1, n - 2) \o <<233>>, <<1635>> \o SubSeq(w, 1, n - 2),
           SubSeq(w, 1, n - 3) \o <<65297>> }

Isbns == Digits13 \cup Malformed(ISBN_VALID, 13) \cup Malformed(ISBN_BAD_CHECK, 13)

\* 5 decimal digits: every check digit, every digit at every position
Digits5 ==
    { Stride(a, b, 4) \o <<48 + e>> : a \in 0..9, b \in 0..MaxStride, e \in 0..9 }

Addons == Digits5 \cup Malformed(ADDON_12345, 5)

\* the main identifiers of the requests: the digit strings of Digits13 whose
\* check digit is right or off by one, and the malformed ones
RequestIsbns ==
    { s \in Digits13 : isbn13_sum(digits_of(s)) % 10 \in {0, 1} }
    \cup Malformed(ISBN_VALID, 13) \cup Malformed(ISBN_BAD_CHECK, 13)

RequestAddons ==
    { <<>>, ADDON_12345, Chars("00000"), Chars("51299"),
      Chars("1234"), Chars("123456"), Chars("123") \o <<233>>, Chars("1234") \o <<88>> }

BarHeights == { Mm(1, 0), Mm(1, 6500), Mm(15, 0) }
Offsets == { 0 - Mm(12, 0), 0, Mm(2, 0), Mm(5, 0) }
Dpis == { 300 }

Requests ==
    [ isbn : RequestIsbns, addon : RequestAddons, bar_height_mm : BarHeights,
      dpi : Dpis, addon_offset_mm : Offsets ]

-----------------------------------------------------------------------------
(* The calls *)

Init ==
    /\ pc = "call"
    /\ ret = Pending
    /\ \/ fn = "validate_isbn13" /\ args \in [isbn : Isbns]
       \/ fn = "encode_ean13" /\ args \in [isbn : Isbns]
       \/ fn = "encode_ean5" /\ args \in [addon : Addons]
       \/ fn = "generate_barcode" /\ args \in [request : Requests]

ValidateIsbn13 ==
    /\ pc = "call" /\ fn = "validate_isbn13"
    /\ ret' = IF validate_isbn13_panics(args.isbn) THEN Panicked
              ELSE Returned(validate_isbn13(args.isbn))
    /\ pc' = "return"
    /\ UNCHANGED <<fn, args>>

EncodeEan13 ==
    /\ pc = "call" /\ fn = "encode_ean13"
    /\ ret' = IF encode_ean13_panics(args.isbn) THEN Panicked
              ELSE Returned(encode_ean13(args.isbn))
    /\ pc' = "return"
    /\ UNCHANGED <<fn, args>>

EncodeEan5 ==
    /\ pc = "call" /\ fn = "encode_ean5"
    /\ ret' = IF encode_ean5_panics(args.addon) THEN Panicked
              ELSE Returned(encode_ean5(args.addon))
    /\ pc' = "return"
    /\ UNCHANGED <<fn, args>>

GenerateBarcode ==
    /\ pc = "call" /\ fn = "generate_barcode"
    /\ ret' = Returned(generate_barcode(args.request))
    /\ pc' = "return"
    /\ UNCHANGED <<fn, args>>

Next == ValidateIsbn13 \/ EncodeEan13 \/ EncodeEan5 \/ GenerateBarcode

Spec == Init /\ [][Next]_vars

-----------------------------------------------------------------------------
(* What the specification says of the encoders, stated on its own terms *)

\* s is exactly n chars, each a decimal digit '0'..'9'
IsDigitString(s, n) == Len(s) = n /\ \A i \in 1..n : s[i] \in 48..57

\* the value of the digit char at (1-based) position i of s
DigitAt(s, i) == s[i] - 48

\* digits weighted 1,3,1,3,... from the first
WeightedSum13(s) ==
    DigitAt(s, 1) + 3 * DigitAt(s, 2) + DigitAt(s, 3) + 3 * DigitAt(s, 4)
    + DigitAt(s, 5) + 3 * DigitAt(s, 6) + DigitAt(s, 7) + 3 * DigitAt(s, 8)
    + DigitAt(s, 9) + 3 * DigitAt(s, 10) + DigitAt(s, 11) + 3 * DigitAt(s, 12)
    + DigitAt(s, 13)

ValidIsbn13(s) == IsDigitString(s, 13) /\ WeightedSum13(s) % 10 = 0

\* a 7-module code of the tables, as modules
Bits(code) == [i \in 1..Len(code) |-> IF code[i] = 49 THEN 1 ELSE 0]

\* the code of digit d in table L or G as named by the pattern char
TableCode(name, d) == IF name = 76 THEN Bits(L_CODES[d + 1]) ELSE Bits(G_CODES[d + 1])

\* modules [from, from + n) of a module sequence, 0-based
Block(m, from, n) == SubSeq(m, from + 1, from + n)

Returns(f) == fn = f /\ pc = "return"

\* C1: validate_isbn13 returns true iff the input has exactly 13 chars, all
\* decimal digits, with weighted (1,3,1,3,...) digit sum = 0 mod 10; it returns
\* false for every other string and never panics.
C1_ValidateIsbn13 ==
    Returns("validate_isbn13") =>
        /\ ret.kind = "value"
        /\ ret.value = ValidIsbn13(args.isbn)

C1_Witness ==
    /\ Returns("validate_isbn13")
    /\ args.isbn = ISBN_VALID
    /\ ret = Returned(TRUE)

\* the module sequence the specification describes for 13 digits
Ean13Expected(s, m) ==
    /\ Len(m) = 95
    /\ \A i \in 1..95 : m[i] \in {0, 1}
    /\ Block(m, 0, 3) = <<1, 0, 1>>
    /\ \A j \in 1..6 :
          Block(m, 3 + 7 * (j - 1), 7)
            = TableCode(FIRST_DIGIT_PATTERNS[DigitAt(s, 1) + 1][j], DigitAt(s, j + 1))
    /\ Block(m, 45, 5) = <<0, 1, 0, 1, 0>>
    /\ \A j \in 1..6 :
          Block(m, 50 + 7 * (j - 1), 7) = Bits(R_CODES[DigitAt(s, j + 7) + 1])
    /\ Block(m, 92, 3) = <<1, 0, 1>>

\* C2: for 13 decimal digits (any checksum) encode_ean13 returns start guard
\* 101, the L/G codes of digits 2-7 per the first-digit pattern of the leading
\* digit, centre guard 01010, the R codes of digits 8-13, end guard 101: 95
\* modules, each 0 or 1.  For every other string it returns None.
C2_EncodeEan13 ==
    Returns("encode_ean13") =>
        /\ ret.kind = "value"
        /\ IF IsDigitString(args.isbn, 13)
           THEN ret.value # None /\ Ean13Expected(args.isbn, ret.value[1])
           ELSE ret.value = None

C2_Witness ==
    /\ Returns("encode_ean13")
    /\ args.isbn = ISBN_BAD_CHECK
    /\ ret.kind = "value" /\ ret.value # None
    /\ Len(ret.value[1]) = 95

\* the EAN-5 check digit of 5 digit chars
Check5(s) ==
    (3 * DigitAt(s, 1) + 9 * DigitAt(s, 2) + 3 * DigitAt(s, 3) + 9 * DigitAt(s, 4)
     + 3 * DigitAt(s, 5)) % 10

\* the module sequence the specification describes for 5 digits: 4 + 5*7 + 4*2
Ean5Expected(s, m) ==
    /\ Len(m) = 47
    /\ Block(m, 0, 4) = <<1, 0, 1, 1>>
    /\ \A j \in 1..5 :
          Block(m, 4 + 9 * (j - 1), 7)
            = TableCode(EAN5_PATTERNS[Check5(s) + 1][j], DigitAt(s, j))
    /\ \A j \in 1..4 : Block(m, 4 + 9 * (j - 1) + 7, 2) = <<0, 1>>

\* C3: for 5 decimal digits encode_ean5 returns start marker 1011, then each
\* digit's L/G code per the EAN-5 pattern of the check digit
\* (3 d0 + 9 d1 + 3 d2 + 9 d3 + 3 d4) mod 10, with separator 01 between
\* consecutive digits only: 47 modules, none of them for the check digit.
\* For every other string it returns None.
C3_EncodeEan5 ==
    Returns("encode_ean5") =>
        /\ ret.kind = "value"
        /\ IF IsDigitString(args.addon, 5)
           THEN ret.value # None /\ Ean5Expected(args.addon, ret.value[1])
           ELSE ret.value = None

C3_Witness ==
    /\ Returns("encode_ean5")
    /\ args.addon = ADDON_12345
    /\ ret.kind = "value" /\ ret.value # None
    /\ Len(ret.value[1]) = 47

-----------------------------------------------------------------------------
(* Parity-pattern selection *)

\* the table a 7-module left-half code comes from: the codes of L hold an odd
\* number of bars, those of G an even number
TableOf(block) == IF SumSeq(block) % 2 = 1 THEN 76 ELSE 71

Tables13(m) == [j \in 1..6 |-> TableOf(Block(m, 3 + 7 * (j - 1), 7))]
Tables5(m) == [j \in 1..5 |-> TableOf(Block(m, 4 + 9 * (j - 1), 7))]

\* 13-digit strings with the leading digit of s: s with one later digit
\* changed, and the generated strings
SameLead(s) ==
    { [s EXCEPT ![k] = 48 + d] : k \in 2..13, d \in 0..9 }
    \cup { <<s[1]>> \o Stride(a, b, 12) : a \in 0..9, b \in 0..MaxStride }

\* C4: two 13-digit inputs with the same leading digit use the same table
\* (L or G) at each of the six left positions, so changing a digit other than
\* the leading one never changes the table at any position; two 5-digit inputs
\* with the same check digit use the same table at each of the five positions.
C4_ParitySelection ==
    /\ (Returns("encode_ean13") /\ IsDigitString(args.isbn, 13)) =>
          \A t \in SameLead(args.isbn) :
              Tables13(encode_ean13(t)[1]) = Tables13(ret.value[1])
    /\ (Returns("encode_ean5") /\ IsDigitString(args.addon, 5)) =>
          \A t \in Digits5 :
              Check5(t) = Check5(args.addon) =>
                  Tables5(encode_ean5(t)[1]) = Tables5(ret.value[1])

C4_Witness ==
    /\ Returns("encode_ean13")
    /\ args.isbn = ISBN_VALID
    /\ ret.kind = "value" /\ ret.value # None
    /\ Tables13(ret.value[1]) = Chars("LGGLGL")
    /\ \E t \in SameLead(args.isbn) :
          /\ encode_ean13(t) # ret.value
          /\ Block(encode_ean13(t)[1], 3, 42) # Block(ret.value[1], 3, 42)

-----------------------------------------------------------------------------
(* generate_barcode *)

Request == args.request
Result == ret.value

\* C5: a main identifier that is not 13 decimal digits gives the format-error
\* failure, whatever its digits sum to and whatever the other fields are; 13
\* digits failing the mod-10 check give the checksum-error failure; an add-on
\* format error is reported only when the main identifier passed both checks.
C5_ErrorOrder ==
    Returns("generate_barcode") =>
        /\ ~IsDigitString(Request.isbn, 13) =>
              ~Result.success /\ Result.message = MSG_ISBN_FORMAT
        /\ (IsDigitString(Request.isbn, 13) /\ WeightedSum13(Request.isbn) % 10 # 0) =>
              ~Result.success /\ Result.message = MSG_ISBN_CHECK
        /\ Result.message = MSG_ADDON_FORMAT => ValidIsbn13(Request.isbn)

C5_Witness ==
    /\ Returns("generate_barcode")
    /\ Request.isbn = [ISBN_VALID EXCEPT ![5] = 88]
    /\ Request.addon = Chars("1234")
    /\ Result.message = MSG_ISBN_FORMAT

AddonAccepted(addon) == addon = <<>> \/ IsDigitString(addon, 5)

\* C6: generate_barcode succeeds with a document iff the main identifier is 13
\* digits with a valid checksum and the add-on is empty or exactly 5 digits;
\* the encoding-failure result is never returned; a failure carries no document.
C6_SuccessIff ==
    Returns("generate_barcode") =>
        /\ ret.kind = "value"
        /\ Result.success = (ValidIsbn13(Request.isbn) /\ AddonAccepted(Request.addon))
        /\ Result.success => Result.eps_content # None /\ Result.message = MSG_GENERATED
        /\ Result.message # MSG_FAILED
        /\ ~Result.success => Result.eps_content = None

C6_Witness ==
    /\ Returns("generate_barcode")
    /\ Request.isbn = ISBN_VALID /\ Request.addon = ADDON_12345
    /\ Result.success /\ Result.eps_content # None

-----------------------------------------------------------------------------
(* The document *)

Succeeds == Returns("generate_barcode") /\ Result.success
Doc == Result.eps_content[1]

\* the widths of the specification, in 1/10000 mm
ModuleWidth == Mm(0, 3300)
LeftQuiet == Mm(3, 6300)
RightQuiet == Mm(2, 3100)
MainWidth == LeftQuiet + 95 * ModuleWidth + RightQuiet

ScenarioC ==
    /\ Succeeds
    /\ Request.isbn = ISBN_VALID
    /\ Request.addon = ADDON_12345
    /\ Request.bar_height_mm = Mm(15, 0)

\* C7 as stated: in scenario C (9780306406157 + 12345, bar height 15.0) the
\* add-on has 47 modules and the add-on section adds 7*0.33 + 5*0.33 + 2.0 mm
\* to the total width 3.63 + 95*0.33 + 2.31 + add-on section width.
C7_AddonWidthAsStated ==
    /\ (Returns("generate_barcode") /\ Request.isbn = ISBN_VALID
        /\ Request.addon = ADDON_12345 /\ Request.bar_height_mm = Mm(15, 0)) =>
          /\ Result.success
          /\ Len(encode_ean5(Request.addon)[1]) = 47
          /\ Doc.total_width_mm = MainWidth + 7 * ModuleWidth + 5 * ModuleWidth + Mm(2, 0)
    /\ (Succeeds /\ Request.addon = <<>>) => Doc.total_width_mm = MainWidth

\* C7: in scenario C (9780306406157 + 12345, bar height 15.0) generation
\* succeeds, the add-on has 47 modules and the add-on section adds
\* 7*0.33 + 47*0.33 + 2.0 mm (one module width per add-on module) to the total
\* width 3.63 + 95*0.33 + 2.31 + add-on section width; with an empty
\* supplementary code it adds nothing.
C7_AddonWidth ==
    /\ (Returns("generate_barcode") /\ Request.isbn = ISBN_VALID
        /\ Request.addon = ADDON_12345 /\ Request.bar_height_mm = Mm(15, 0)) =>
          /\ Result.success
          /\ Len(encode_ean5(Request.addon)[1]) = 47
          /\ Doc.total_width_mm = MainWidth + 7 * ModuleWidth + 47 * ModuleWidth + Mm(2, 0)
    /\ (Succeeds /\ Request.addon = <<>>) => Doc.total_width_mm = MainWidth

C7_Witness ==
    /\ ScenarioC
    /\ Doc.total_width_mm = Mm(57, 1100)

\* the drawing primitives of one kind, in the order they are written
Bars(doc) == SelectSeq(doc.ops, LAMBDA o : o.op = "bar")
Texts(doc) == SelectSeq(doc.ops, LAMBDA o : o.op = "text")

\* the bars of the main symbol: those left of the right quiet zone
MainBars(doc) == SelectSeq(Bars(doc), LAMBDA o : o.x < LeftQuiet + 95 * ModuleWidth)

\* the indices (0-based) of the modules equal to 1, ascending
OnesOf(m) == SelectSeq([k \in 1..Len(m) |-> k - 1], LAMBDA i : m[i + 1] = 1)

GuardIndex(i) == i \in (0..2) \cup (45..49) \cup (92..94)

GuardBottom == Mm(1, 930)
DataBottom == Mm(2, 7430)

MainBarAt(i, bar_height) ==
    [ op |-> "bar",
      x |-> LeftQuiet + i * ModuleWidth,
      x_end |-> LeftQuiet + i * ModuleWidth + ModuleWidth,
      y_bot |-> IF GuardIndex(i) THEN GuardBottom ELSE DataBottom,
      y_top |-> GuardBottom + bar_height ]

\* C8: generate_eps draws one rectangle per module equal to 1 of the 95 and
\* none for a module equal to 0; the rectangle of module i starts at
\* 3.63 + i*0.33 mm, is one module wide, and runs up to bar_top from 1.093
\* (i in 0..2, 45..49, 92..94) or from 2.743 (otherwise); the bars at guard
\* height are exactly those of indices 0, 2, 46, 48, 92 and 94.
C8_MainBars ==
    Succeeds =>
        LET m == encode_ean13(Request.isbn)[1]
            ones == OnesOf(m)
            bars == MainBars(Doc)
        IN  /\ Len(m) = 95
            /\ bars = [k \in 1..Len(ones) |-> MainBarAt(ones[k], Request.bar_height_mm)]
            /\ { i \in 0..94 : m[i + 1] = 1 /\ GuardIndex(i) } = {0, 2, 46, 48, 92, 94}
            /\ { bars[k].x : k \in { n \in 1..Len(bars) : bars[n].y_bot = GuardBottom } }
                 = { LeftQuiet + i * ModuleWidth : i \in {0, 2, 46, 48, 92, 94} }

C8_Witness ==
    /\ Succeeds
    /\ Request.isbn = ISBN_VALID
    /\ Len(MainBars(Doc)) > 6
    /\ \E k \in 1..Len(MainBars(Doc)) : MainBars(Doc)[k].y_bot = DataBottom
    /\ \E k \in 1..Len(MainBars(Doc)) :
          MainBars(Doc)[k].y_bot = GuardBottom /\ MainBars(Doc)[k].x = LeftQuiet + 46 * ModuleWidth

\* where a label is written so as to sit centred on the 7 modules that start
\* at block_x: the centre of the block, less 0.3 of the font size
LabelX(block_x) == block_x + (7 * ModuleWidth) \div 2 - (3 * Mm(3, 1750)) \div 10

AddonStart == LeftQuiet + 95 * ModuleWidth + 7 * ModuleWidth

\* C9: the label of identifier digit i+2 (i = 0..5) is centred on modules
\* [3+7i, 3+7i+7), that digit's L/G code in the encode_ean13 output; the label
\* of digit i+8 on modules [50+7i, 50+7i+7), that digit's R code; with an
\* add-on, the label of add-on digit i (i = 0..4) on add-on modules
\* [4+9i, 4+9i+7), that digit's L/G code in the encode_ean5 output; 13 main
\* labels are drawn, and 5 add-on labels iff the supplementary code is non-empty.
C9_Labels ==
    Succeeds =>
        LET isbn == Request.isbn
            addon == Request.addon
            m == encode_ean13(isbn)[1]
            T == Texts(Doc)
        IN  /\ Len(T) = 13 + (IF addon # <<>> THEN 5 ELSE 0)
            /\ T[1].text = <<isbn[1]>>
            /\ \A i \in 0..5 :
                  /\ T[2 + i].text = <<isbn[i + 2]>>
                  /\ T[2 + i].x = LabelX(LeftQuiet + (3 + 7 * i) * ModuleWidth)
                  /\ Block(m, 3 + 7 * i, 7)
                       = TableCode(FIRST_DIGIT_PATTERNS[DigitAt(isbn, 1) + 1][i + 1],
                                   DigitAt(isbn, i + 2))
            /\ \A i \in 0..5 :
                  /\ T[8 + i].text = <<isbn[i + 8]>>
                  /\ T[8 + i].x = LabelX(LeftQuiet + (50 + 7 * i) * ModuleWidth)
                  /\ Block(m, 50 + 7 * i, 7) = Bits(R_CODES[DigitAt(isbn, i + 8) + 1])
            /\ addon # <<>> =>
                  LET m5 == encode_ean5(addon)[1] IN
                  \A i \in 0..4 :
                      /\ T[14 + i].text = <<addon[i + 1]>>
                      /\ T[14 + i].x = LabelX(AddonStart + (4 + 9 * i) * ModuleWidth)
                      /\ Block(m5, 4 + 9 * i, 7)
                           = TableCode(EAN5_PATTERNS[Check5(addon) + 1][i + 1],
                                       DigitAt(addon, i + 1))

C9_Witness ==
    /\ Succeeds
    /\ Request.isbn = ISBN_VALID /\ Request.addon = ADDON_12345
    /\ Len(Texts(Doc)) = 18

\* C10: for an accepted request with bar_height_mm > 0, every rectangle of the
\* document has y_bot <= y_top, x range within 0..total width and y range
\* within 0..total height (bar_top + 0.5 mm).
C10_BarsInsideBox ==
    (Succeeds /\ Request.bar_height_mm > 0) =>
        \A k \in 1..Len(Bars(Doc)) :
            LET b == Bars(Doc)[k] IN
            /\ b.y_bot <= b.y_top
            /\ 0 <= b.x /\ b.x <= b.x_end /\ b.x_end <= Doc.total_width_mm
            /\ 0 <= b.y_bot /\ b.y_top <= Doc.total_height_mm

=============================================================================
